---- MODULE Spec2Model ----
(***************************************************************************)
(* The parameter override engine of mayo (src/mayo/override.py): the       *)
(* lifecycle apply / update / assign / reset of an overrider, the chain,   *)
(* the pruners and the fixed-point quantizers, together with the host      *)
(* session that stores the raw parameters and the internal variables.      *)
(*                                                                         *)
(* Numbers are exact rationals <<n, d>> in lowest terms with d > 0; the    *)
(* float32 rounding error of the backends is not modelled.  A tensor of    *)
(* the graph is [param, ops]: the raw parameter it is computed from and    *)
(* the overriding operations applied on top of it, evaluated against the   *)
(* session's current storage by Eval (session.run).                        *)
(***************************************************************************)
EXTENDS Integers, Sequences, FiniteSets, TLC

VARIABLES
    ov,      \* the overrider objects: Ids -> their attributes
    raw,     \* host storage of the raw parameters: Params -> array
    store,   \* host storage of the variables created through the getter
    tops,    \* the overriders the host calls directly
    call     \* the last call the host made, how it ended, and whether it
             \* changed a variable of the session

vars == <<ov, raw, store, tops, call>>

----------------------------------------------------------------------------
(* Bounds of the model *)

ArrLen == 2       \* number of elements of the generated raw arrays
MaxPoint == 2     \* largest binary point of a FixedPointQuantizer
MaxWidth == 4     \* largest bit width of a quantizer

----------------------------------------------------------------------------
(* Exact rational arithmetic *)

IAbs(i) == IF i < 0 THEN -i ELSE i

RECURSIVE Gcd(_, _)
Gcd(a, b) == IF b = 0 THEN a ELSE Gcd(b, a % b)

Rat(n, d) ==
    LET s == IF d < 0 THEN -1 ELSE 1
        g == Gcd(IAbs(n), IAbs(d))
    IN  <<(s * n) \div g, (s * d) \div g>>

RInt(i) == <<i, 1>>
RAdd(a, b) == Rat(a[1] * b[2] + b[1] * a[2], a[2] * b[2])
RSub(a, b) == Rat(a[1] * b[2] - b[1] * a[2], a[2] * b[2])
RMul(a, b) == Rat(a[1] * b[1], a[2] * b[2])
RDiv(a, b) == Rat(a[1] * b[2], a[2] * b[1])
RLt(a, b) == a[1] * b[2] < b[1] * a[2]
RLe(a, b) == a[1] * b[2] <= b[1] * a[2]
RGt(a, b) == RLt(b, a)
RZero == <<0, 1>>

RECURSIVE Pow2(_)
Pow2(k) == IF k <= 0 THEN 1 ELSE 2 * Pow2(k - 1)

\* 2 ** point as the float it is cast to: 2^k, or 1 / 2^(-k) for k < 0
\* a shift to the right: 2 ** -k
TwoTo_right(k) == IF k >= 0 THEN <<1, Pow2(k)>> ELSE <<Pow2(-k), 1>>

TwoTo(k) == IF k >= 0 THEN <<Pow2(k), 1>> ELSE <<1, Pow2(-k)>>

RECURSIVE RSum(_)
RSum(a) == IF a = <<>> THEN RZero ELSE RAdd(a[1], RSum(Tail(a)))

----------------------------------------------------------------------------
(* The representation dispatcher, on dense arrays *)

\* _abs
_abs(a) == [i \in DOMAIN a |-> <<IAbs(a[i][1]), a[i][2]>>]

\* round half to even, as round(), np.round and tf.round all do
RoundHalfEven(x) ==
    LET q == x[1] \div x[2]
        r == x[1] - q * x[2]
    IN  IF 2 * r < x[2] THEN q
        ELSE IF 2 * r > x[2] THEN q + 1
        ELSE IF q % 2 = 0 THEN q ELSE q + 1

\* rounding down instead of to the nearest integer
_round_down(a) == [i \in DOMAIN a |-> a[i][1] \div a[i][2]]

\* _round: an array of integers
_round(a) == [i \in DOMAIN a |-> RoundHalfEven(a[i])]

\* _sum of an array of 0/1 integers, _count of an array
RECURSIVE _sum(_)
_sum(a) == IF a = <<>> THEN 0 ELSE a[1] + _sum(Tail(a))

_count(a) == Len(a)

\* _cast(bools, int)
CastInt(b) == [i \in DOMAIN b |-> IF b[i] THEN 1 ELSE 0]

\* _clip_by_value on integers
_clip_by_value(a, minimum, maximum) ==
    [i \in DOMAIN a |->
        IF a[i] < minimum THEN minimum
        ELSE IF a[i] > maximum THEN maximum ELSE a[i]]

\* a quantizer that leaves the clipped integers as they are, without
\* reverting the shift
_quantize_unshifted(width_set, width, value, point, compute_overflow_rate) ==
    LET shifted == [i \in DOMAIN value |-> RMul(value[i], TwoTo(point))]
        max_value == Pow2(width - 1)
        rounded == _round(shifted)
        clipped == _clip_by_value(rounded, -max_value, max_value - 1)
    IN  [err |-> "ok",
         rate |-> Rat(Cardinality({i \in DOMAIN rounded :
                     rounded[i] < -max_value \/ rounded[i] > max_value - 1}),
                      Len(value)),
         value |-> [i \in DOMAIN clipped |-> RInt(clipped[i])]]

\* _quantize (FixedPointQuantizer): value is an array, point an integer.
\* The result is [err, rate, value]: width None makes self.width - 1 raise.
_quantize(width_set, width, value, point, compute_overflow_rate) ==
    LET shift == TwoTo(point)
        shifted == [i \in DOMAIN value |-> RMul(value[i], shift)]
        rounded == _round(shifted)
    IN  IF ~width_set
        THEN [err |-> "TypeError", rate |-> RZero, value |-> <<>>]
        ELSE
        LET max_value == Pow2(width - 1)
            overflows == [i \in DOMAIN rounded |->
                             rounded[i] < -max_value \/ rounded[i] > max_value - 1]
            clipped == _clip_by_value(rounded, -max_value, max_value - 1)
        IN  IF compute_overflow_rate
            THEN [err |-> "ok",
                  rate |-> Rat(_sum(CastInt(overflows)), _count(overflows)),
                  value |-> <<>>]
            ELSE [err |-> "ok", rate |-> RZero,
                  value |-> [i \in DOMAIN clipped |->
                                RDiv(RInt(clipped[i]), shift)]]

\* _binarize: the comparison cast to float, so the result is a float array
\* (held here as its truth values, tagged with the dtype)
_binarize(tensor, threshold) ==
    [dtype |-> "float",
     value |-> [i \in DOMAIN tensor |-> RGt(_abs(tensor)[i], threshold)]]

\* MeanStdPruner._threshold is mean + alpha * sqrt(var) of |tensor| over all
\* elements.  The square root is not a rational, so the threshold is used
\* through the one comparison the pruners make with it:
\*     x > factor * (mean + alpha * sqrt(var))
\* decided exactly from the signs and the squares of both sides.
Mean(a) == RDiv(RSum(a), RInt(Len(a)))
Variance(a) ==
    LET m == Mean(a)
    IN  Mean([i \in DOMAIN a |-> RMul(RSub(a[i], m), RSub(a[i], m))])

GtThreshold(x, factor, alpha, tensor) ==
    LET a == _abs(tensor)
        l == RSub(x, RMul(factor, Mean(a)))
        c == RMul(factor, alpha)
        l2 == RMul(l, l)
        r2 == RMul(RMul(c, c), Variance(a))
    IN  IF RLe(RZero, c)
        THEN RLt(RZero, l) /\ RLt(r2, l2)
        ELSE RLt(RZero, l) \/ RLt(l2, r2)

\* the threshold itself is negative: 0 > mean + alpha * sqrt(var)
ThresholdNegative(alpha, tensor) == GtThreshold(RZero, RInt(1), alpha, tensor)

----------------------------------------------------------------------------
(* The representation dispatcher, on operands of every kind.  An operand  *)
(* is [kind, dtype, v]: kind "constant" (a Python bool, int or float; v   *)
(* has one element), "numpy" (np.ndarray), "tensor" (tf.Tensor; v is the  *)
(* value it evaluates to) or "variable" (tf.Variable, which is symbolic    *)
(* and no tf.Tensor).  A result is [err, kind, dtype, v, nodes]: nodes are *)
(* the graph operations built, each with its backward rule.                *)

Operand(kind, dtype, v) == [kind |-> kind, dtype |-> dtype, v |-> v]
Returned(kind, dtype, v, nodes) ==
    [err |-> "ok", kind |-> kind, dtype |-> dtype, v |-> v, nodes |-> nodes]
Raised(err) ==
    [err |-> err, kind |-> "none", dtype |-> "none", v |-> <<>>, nodes |-> <<>>]
GraphNode(op, backward) == [op |-> op, backward |-> backward]
AsOperand(res) == Operand(res.kind, res.dtype, res.v)

_is_constant(args) == \A i \in DOMAIN args : args[i].kind = "constant"
\* an array test that one array among the arguments satisfies
_is_numpy_any(args) == \E i \in DOMAIN args : args[i].kind = "numpy"

_is_numpy(args) ==
    IF _is_constant(args) THEN FALSE
    ELSE \A i \in DOMAIN args : args[i].kind \in {"constant", "numpy"}
_is_tensor(args) == \E i \in DOMAIN args : args[i].kind = "tensor"

\* the backend an operation picks for its arguments: the constant one, else
\* the array one, else the symbolic one (the order of the tests of _clip)
Backend(args) ==
    IF _is_constant(args) THEN "constant"
    ELSE IF _is_numpy(args) THEN "numpy"
    ELSE "tensor"

\* int(x), np.int32 and tf.int32 casts: towards zero
TruncInt(x) == IF x[1] >= 0 THEN x[1] \div x[2] ELSE -((-x[1]) \div x[2])
CastTo(x, dtype) == IF dtype = "int" THEN RInt(TruncInt(x)) ELSE x

\* _cast (the dispatcher)
_cast(value, dtype) ==
    LET v == [i \in DOMAIN value.v |-> CastTo(value.v[i], dtype)]
    IN  IF _is_constant(<<value>>) THEN Returned("constant", dtype, v, <<>>)
        ELSE IF _is_numpy(<<value>>) THEN Returned("numpy", dtype, v, <<>>)
        ELSE Returned("tensor", dtype, v, <<GraphNode("Cast", "native")>>)

\* a sum that takes a constant for an array of one element
_sum_lenient(value) ==
    IF _is_tensor(<<value>>)
    THEN Returned("tensor", value.dtype, <<RSum(value.v)>>,
                  <<GraphNode("Sum", "native")>>)
    ELSE Returned("numpy", value.dtype, <<RSum(value.v)>>, <<>>)

\* _sum (the dispatcher)
_sum_op(value) ==
    IF _is_constant(<<value>>) THEN Raised("TypeError")
    ELSE IF _is_numpy(<<value>>)
         THEN Returned("numpy", value.dtype, <<RSum(value.v)>>, <<>>)
    ELSE Returned("tensor", value.dtype, <<RSum(value.v)>>,
                  <<GraphNode("Sum", "native")>>)

\* _count (the dispatcher): value.size, value.shape.num_elements()
_count_op(value) ==
    IF _is_constant(<<value>>) THEN Raised("TypeError")
    ELSE Returned("constant", "int", <<RInt(Len(value.v))>>, <<>>)

\* _round (the dispatcher): tf.round under the override map Round -> Identity
_round_op(value) ==
    LET v == [i \in DOMAIN value.v |-> RInt(RoundHalfEven(value.v[i]))]
    IN  IF _is_constant(<<value>>) THEN Returned("constant", "int", v, <<>>)
        ELSE IF _is_numpy(<<value>>) THEN Returned("numpy", value.dtype, v, <<>>)
        ELSE Returned("tensor", value.dtype, v,
                      <<GraphNode("Round", "Identity")>>)

\* _abs (the dispatcher)
_abs_op(value) ==
    LET v == _abs(value.v)
    IN  IF _is_constant(<<value>>) THEN Returned("constant", value.dtype, v, <<>>)
        ELSE IF _is_numpy(<<value>>) THEN Returned("numpy", value.dtype, v, <<>>)
        ELSE Returned("tensor", value.dtype, v, <<GraphNode("Abs", "native")>>)

RMin(x, y) == IF RLe(x, y) THEN x ELSE y
RMax(x, y) == IF RLe(x, y) THEN y ELSE x
RECURSIVE RMinOf(_)
RMinOf(a) == IF Len(a) = 1 THEN a[1] ELSE RMin(a[1], RMinOf(Tail(a)))
RECURSIVE RMaxOf(_)
RMaxOf(a) == IF Len(a) = 1 THEN a[1] ELSE RMax(a[1], RMaxOf(Tail(a)))

\* a binary operation element by element, a scalar broadcast to the array
Elementwise(a, b, min_max) ==
    LET n == IF Len(a.v) >= Len(b.v) THEN Len(a.v) ELSE Len(b.v)
        at(x, i) == IF Len(x.v) = 1 THEN x.v[1] ELSE x.v[i]
    IN  [i \in 1..n |-> IF min_max THEN RMin(at(a, i), at(b, i))
                        ELSE RMax(at(a, i), at(b, i))]

\* np.min(a, b), np.max(a, b): the second argument is the axis to reduce
\* over.  On an array of one dimension the axes 0 and -1 reduce it to a
\* scalar, another integer is out of bounds, a float or an array is no axis.
np_reduce(a, b, min_max) ==
    IF a.kind = "numpy" /\ b.kind = "constant" /\ b.dtype = "int"
    THEN IF b.v[1] \in {RInt(0), RInt(-1)}
         THEN Returned("numpy", a.dtype,
                       <<IF min_max THEN RMinOf(a.v) ELSE RMaxOf(a.v)>>, <<>>)
         ELSE Raised("AxisError")
    ELSE Raised("TypeError")

\* _clip(a, b, min_max=...)
_clip(a, b, min_max) ==
    IF _is_constant(<<a, b>>)
    THEN Returned("constant",
                  IF "float" \in {a.dtype, b.dtype} THEN "float" ELSE "int",
                  Elementwise(a, b, min_max), <<>>)
    ELSE IF _is_numpy(<<a, b>>) THEN np_reduce(a, b, min_max)
    ELSE Returned("tensor", "float", Elementwise(a, b, min_max),
                  <<GraphNode(IF min_max THEN "Minimum" ELSE "Maximum",
                              "native")>>)

_min(a, b) == _clip(a, b, TRUE)
_max(a, b) == _clip(a, b, FALSE)

\* _clip_by_value (the dispatcher): _min(_max(...)) when an argument is a
\* tensor; otherwise tf.clip_by_value, a Minimum and a Maximum node built
\* under the override map that transparent_backprop asks for
_clip_by_value_op(tensor, minimum, maximum, transparent_backprop) ==
    IF _is_tensor(<<tensor, minimum, maximum>>)
    THEN LET lower == _max(tensor, minimum)
         IN  IF lower.err # "ok" THEN lower
             ELSE LET upper == _min(AsOperand(lower), maximum)
                  IN  IF upper.err # "ok" THEN upper
                      ELSE [upper EXCEPT !.nodes = lower.nodes \o upper.nodes]
    ELSE LET backward == IF transparent_backprop THEN "Identity" ELSE "native"
             upper == Operand("tensor", "float",
                              Elementwise(tensor, maximum, TRUE))
         IN  Returned("tensor", "float", Elementwise(upper, minimum, FALSE),
                      <<GraphNode("Minimum", backward),
                        GraphNode("Maximum", backward)>>)

\* the rounding and clipping nodes _quantize builds on a tensor: _round,
\* then _clip_by_value(value, -max_value, max_value - 1)
_quantize_op(value, point, width) ==
    LET shift == TwoTo(point)
        shifted == Operand(value.kind, value.dtype,
                           [i \in DOMAIN value.v |-> RMul(value.v[i], shift)])
        rounded == _round_op(shifted)
        max_value == Pow2(width - 1)
        clipped == _clip_by_value_op(
                       AsOperand(rounded),
                       Operand("constant", "float", <<RInt(-max_value)>>),
                       Operand("constant", "float", <<RInt(max_value - 1)>>),
                       FALSE)
    IN  IF clipped.err # "ok" THEN clipped
        ELSE [clipped EXCEPT
                 !.v = [i \in DOMAIN clipped.v |-> RDiv(clipped.v[i], shift)],
                 !.nodes = rounded.nodes \o clipped.nodes]

----------------------------------------------------------------------------
(* The host: parameters, graph tensors, session storage *)

\* the parameters a host may train; a host of one overrider or one chain
\* trains the first only
Params == {"w1", "w2"}
Trained == {"w1"}
Ids == {1, 2, 3}

\* a tensor of the graph: the parameter and the operations on top of it
ParamTensor(p) == [param |-> p, ops |-> <<>>]
Unbound == [param |-> "none", ops |-> <<>>]

\* a name that leaves the parameter out
OpName_shared(t) == <<"w1", Len(t.ops)>>

\* value.op.name: one name per node of the graph
OpName(t) == <<t.param, Len(t.ops)>>
NoName == <<"none", 0>>

\* names of the variables the getter hands out: '<op name>/mask', '/point'
VarNames == (Params \X {0, 1}) \X {"mask", "point"}
NoVar == <<NoName, "none">>
Absent == [exists |-> FALSE, dtype |-> "none", value |-> <<>>,
           initial_value |-> <<>>]

\* the host's getter: returns the variable of that name, creating it from
\* its initializer when it does not exist yet
getter(st, name, dtype, initial) ==
    IF st[name].exists THEN st
    ELSE [st EXCEPT ![name] = [exists |-> TRUE, dtype |-> dtype,
                               value |-> initial, initial_value |-> initial]]

\* one operation of the graph on an evaluated array
EvalOp(v, op, st) ==
    IF op.kind = "mul_mask"
    THEN [i \in DOMAIN v |-> IF st[op.var].value[i] THEN v[i] ELSE RZero]
    ELSE _quantize(TRUE, op.width, v,
                   IF op.var = NoVar THEN op.point ELSE st[op.var].value[1],
                   FALSE).value

RECURSIVE EvalOps(_, _, _)
EvalOps(v, ops, st) ==
    IF ops = <<>> THEN v ELSE EvalOps(EvalOp(v, Head(ops), st), Tail(ops), st)

\* session.run(tensor)
Eval(t, rw, st) == EvalOps(rw[t.param], t.ops, st)

\* an assign that gives the variable the dtype of the value it is handed
tf_assign_retyping(S, name, dtype, value) ==
    [S EXCEPT !.store[name].value = value, !.store[name].dtype = dtype]

\* session.run(tf.assign(var, value)): the dtypes must agree
tf_assign(S, name, dtype, value) ==
    IF S.store[name].dtype # dtype
    THEN [S EXCEPT !.err = "TypeError"]
    ELSE [S EXCEPT !.store[name].value = value]

----------------------------------------------------------------------------
(* The overriders *)

\* BaseOverrider.__init__, and the attributes the subclasses add to it
BaseOverrider(should_update) ==
    [cls |-> "BaseOverrider", should_update |-> should_update,
     attrs |-> {"name", "internals", "should_update"},
     name |-> NoName, internals |-> {},
     before |-> Unbound, after |-> Unbound, mask |-> NoVar,
     _before |-> Unbound, _after |-> Unbound,
     overriders |-> <<>>,
     threshold |-> RZero, alpha |-> RZero,
     on_factor |-> RZero, off_factor |-> RZero,
     point_set |-> FALSE, point |-> 0, point_var |-> NoVar,
     width_set |-> FALSE, width |-> 0,
     overflow_rate |-> RZero, init_point |-> 0]

ChainOverrider(overriders, should_update) ==
    [BaseOverrider(should_update) EXCEPT
        !.cls = "ChainOverrider", !.overriders = overriders,
        !.attrs = @ \cup {"_overriders"}]

ThresholdPruner(threshold, should_update) ==
    [BaseOverrider(should_update) EXCEPT
        !.cls = "ThresholdPruner", !.threshold = threshold,
        !.attrs = @ \cup {"threshold"}]

MeanStdPruner(alpha, should_update) ==
    [BaseOverrider(should_update) EXCEPT
        !.cls = "MeanStdPruner", !.alpha = alpha,
        !.attrs = @ \cup {"alpha"}]

DynamicNetworkSurgeryPruner(c_rate, on_factor, off_factor, should_update) ==
    [MeanStdPruner(c_rate, should_update) EXCEPT
        !.cls = "DynamicNetworkSurgeryPruner",
        !.on_factor = on_factor, !.off_factor = off_factor,
        !.attrs = @ \cup {"on_factor", "off_factor"}]

\* width is [set, v]: None or a number; a width below 1 raises ValueError,
\* so only widths >= 1 make an object
FixedPointQuantizer(point_set, point, width_set, width, should_update) ==
    [BaseOverrider(should_update) EXCEPT
        !.cls = "FixedPointQuantizer",
        !.point_set = point_set, !.point = point,
        !.width_set = width_set, !.width = width,
        !.attrs = @ \cup {"point", "width"}]

DynamicFixedPointQuantizer(width, overflow_rate, should_update) ==
    [FixedPointQuantizer(FALSE, 0, TRUE, width, should_update) EXCEPT
        !.cls = "DynamicFixedPointQuantizer",
        !.overflow_rate = overflow_rate, !.init_point = width - 1,
        !.attrs = @ \cup {"overflow_rate", "_init_point"}]

\* a constructor call: [err, obj]; no object is made when __init__ raises
Built(obj) == [err |-> "ok", obj |-> obj]
NotBuilt(err) == [err |-> err, obj |-> BaseOverrider(FALSE)]

\* a constructor checking width < 0 instead of width < 1
FixedPointQuantizer_init_nonnegative(point_set, point, width_set, width, should_update) ==
    IF width_set /\ width < 0 THEN NotBuilt("ValueError")
    ELSE Built(FixedPointQuantizer(point_set, point, width_set, width,
                                   should_update))

\* FixedPointQuantizer.__init__ with its check of the width
FixedPointQuantizer_init(point_set, point, width_set, width, should_update) ==
    IF width_set /\ width < 1 THEN NotBuilt("ValueError")
    ELSE Built(FixedPointQuantizer(point_set, point, width_set, width,
                                   should_update))

\* DynamicFixedPointQuantizer.__init__: the base constructor runs first;
\* width None fails at width - 1
DynamicFixedPointQuantizer_init(width_set, width, overflow_rate, should_update) ==
    LET base == FixedPointQuantizer_init(FALSE, 0, width_set, width,
                                         should_update)
    IN  IF base.err # "ok" THEN base
        ELSE IF ~width_set THEN NotBuilt("TypeError")
        ELSE Built(DynamicFixedPointQuantizer(width, overflow_rate,
                                              should_update))

Pruners == {"ThresholdPruner", "MeanStdPruner", "DynamicNetworkSurgeryPruner"}
Quantizers == {"FixedPointQuantizer", "DynamicFixedPointQuantizer"}

----------------------------------------------------------------------------
(* The methods.  A method takes and returns S = [ov, store, raw, err, ret]: *)
(* the objects, the session's storage, how the call ended ("ok" or the     *)
(* exception raised) and the value returned.  A raise keeps whatever the   *)
(* method had already written.                                             *)

Ok(S) == S.err = "ok"
Raise(S, e) == [S EXCEPT !.err = e]

Node(kind, var, point, width) ==
    [kind |-> kind, var |-> var, point |-> point, width |-> width]
Then(t, node) == [param |-> t.param, ops |-> Append(t.ops, node)]

\* a getter wrapper that forgets to record the variable
tracking_getter_untracked(S, trackers, name, dtype, initial) ==
    [S EXCEPT !.store = getter(S.store, name, dtype, initial)]

\* apply.tracking_getter: every overrider whose tracking getter the request
\* passes through (the overrider itself and the chain around it) records
\* the variable in its internals
tracking_getter(S, trackers, name, dtype, initial) ==
    [S EXCEPT
        !.store = getter(S.store, name, dtype, initial),
        !.ov = [i \in Ids |->
                   IF i \in trackers
                   THEN [S.ov[i] EXCEPT !.internals = @ \cup {name}]
                   ELSE S.ov[i]]]

\* a pruner whose mask is created by a zeros initializer: all pruned
BasePruner_apply_pruned(S, id, trackers, value) ==
    LET name == <<OpName(value), "mask">>
        zeros == [i \in 1..Len(S.raw[value.param]) |-> FALSE]
        S1 == tracking_getter(S, trackers, name, "bool", zeros)
    IN  [S1 EXCEPT !.ov[id].mask = name,
                   !.ov[id].attrs = @ \cup {"_mask"},
                   !.ret = Then(value, Node("mul_mask", name, 0, 0))]

\* BasePruner._apply
BasePruner_apply(S, id, trackers, value) ==
    LET name == <<OpName(value), "mask">>
        ones == [i \in 1..Len(S.raw[value.param]) |-> TRUE]
        S1 == tracking_getter(S, trackers, name, "bool", ones)
    IN  [S1 EXCEPT !.ov[id].mask = name,
                   !.ov[id].attrs = @ \cup {"_mask"},
                   !.ret = Then(value, Node("mul_mask", name, 0, 0))]

\* FixedPointQuantizer._apply
FixedPointQuantizer_apply(S, id, trackers, value) ==
    LET o == S.ov[id]
    IN  IF ~o.width_set THEN Raise(S, "TypeError")
        ELSE [S EXCEPT !.ret = Then(value,
                                   Node("quantize", NoVar, o.point, o.width))]

\* an apply that makes its point variable afresh on every call
DynamicFixedPointQuantizer_apply_afresh(S, id, trackers, value) ==
    LET o == S.ov[id]
        name == <<OpName(value), "point">>
        S1 == tracking_getter(S, trackers, name, "int32", <<o.init_point>>)
    IN  [S1 EXCEPT !.store[name].value = <<o.init_point>>,
                   !.ov[id].point_set = TRUE,
                   !.ov[id].point_var = name,
                   !.ret = Then(value, Node("quantize", name, 0, o.width))]

\* DynamicFixedPointQuantizer._apply
DynamicFixedPointQuantizer_apply(S, id, trackers, value) ==
    LET o == S.ov[id]
        name == <<OpName(value), "point">>
        S1 == IF o.point_set THEN S
              ELSE [tracking_getter(S, trackers, name, "int32",
                                    <<o.init_point>>)
                       EXCEPT !.ov[id].point_set = TRUE,
                              !.ov[id].point_var = name]
        o1 == S1.ov[id]
    IN  [S1 EXCEPT !.ret = Then(value,
                               Node("quantize", o1.point_var, 0, o1.width))]

RECURSIVE apply(_, _, _, _)
RECURSIVE ChainOverrider_apply(_, _, _, _, _)

\* a chain that hands the raw value to every child
ChainOverrider_apply_unthreaded(S, id, k, trackers, value) ==
    IF k > Len(S.ov[id].overriders) THEN [S EXCEPT !.ret = value]
    ELSE LET S1 == apply(S, S.ov[id].overriders[k], trackers, value)
         IN  IF Ok(S1)
             THEN [ChainOverrider_apply(S1, id, k + 1, trackers, value)
                      EXCEPT !.ret = IF k = Len(S.ov[id].overriders)
                                     THEN S1.ret ELSE @]
             ELSE S1

\* ChainOverrider._apply, from child k on
ChainOverrider_apply(S, id, k, trackers, value) ==
    IF k > Len(S.ov[id].overriders) THEN [S EXCEPT !.ret = value]
    ELSE LET S1 == apply(S, S.ov[id].overriders[k], trackers, value)
         IN  IF Ok(S1)
             THEN ChainOverrider_apply(S1, id, k + 1, trackers, S1.ret)
             ELSE S1

\* the _apply of the overrider's class
Dispatch_apply(S, id, trackers, value) ==
    LET c == S.ov[id].cls
    IN  IF c = "ChainOverrider" THEN ChainOverrider_apply(S, id, 1, trackers, value)
        ELSE IF c \in Pruners THEN BasePruner_apply(S, id, trackers, value)
        ELSE IF c = "FixedPointQuantizer"
             THEN FixedPointQuantizer_apply(S, id, trackers, value)
        ELSE IF c = "DynamicFixedPointQuantizer"
             THEN DynamicFixedPointQuantizer_apply(S, id, trackers, value)
        ELSE Raise(S, "NotImplementedError")

\* BaseOverrider.apply
apply(S, id, trackers, value) ==
    LET S1 == [S EXCEPT !.ov[id].attrs = @ \cup {"_applied", "before"},
                        !.ov[id].name = OpName(value),
                        !.ov[id].before = value]
        S2 == Dispatch_apply(S1, id, trackers \cup {id}, value)
    IN  IF Ok(S2)
        THEN [S2 EXCEPT !.ov[id].after = S2.ret,
                        !.ov[id].attrs = @ \cup {"after"}]
        ELSE S2

\* ThresholdPruner._updated_mask
ThresholdPruner_updated_mask(o, var, mask) == _binarize(var, o.threshold)

\* MeanStdPruner._updated_mask (with _threshold, see GtThreshold)
MeanStdPruner_updated_mask(o, var, mask) ==
    [dtype |-> "float",
     value |-> [i \in DOMAIN var |->
                   GtThreshold(_abs(var)[i], RInt(1), o.alpha, var)]]

\* the surgery mask without the off_mask step: nothing is ever pruned
updated_mask_never_pruning(o, var, mask) ==
    [dtype |-> "bool",
     value |-> [i \in DOMAIN var |->
                   mask[i] \/ GtThreshold(_abs(var)[i], o.on_factor, o.alpha, var)]]

\* the surgery mask computed without the old mask: no hysteresis
updated_mask_forgetting(o, var, mask) ==
    [dtype |-> "bool",
     value |-> [i \in DOMAIN var |->
                   /\ GtThreshold(_abs(var)[i], o.on_factor, o.alpha, var)
                   /\ GtThreshold(_abs(var)[i], o.off_factor, o.alpha, var)]]

\* the surgery mask with the old mask negated: a bit in the band flips
updated_mask_flipping(o, var, mask) ==
    [dtype |-> "bool",
     value |-> [i \in DOMAIN var |->
                   /\ ~mask[i] \/ GtThreshold(_abs(var)[i], o.on_factor, o.alpha, var)
                   /\ GtThreshold(_abs(var)[i], o.off_factor, o.alpha, var)]]

\* DynamicNetworkSurgeryPruner._updated_mask
DynamicNetworkSurgeryPruner_updated_mask(o, var, mask) ==
    LET on_mask == [i \in DOMAIN var |->
                       GtThreshold(_abs(var)[i], o.on_factor, o.alpha, var)]
        mask1 == [i \in DOMAIN var |-> mask[i] \/ on_mask[i]]
        off_mask == [i \in DOMAIN var |->
                        GtThreshold(_abs(var)[i], o.off_factor, o.alpha, var)]
    IN  [dtype |-> "bool",
         value |-> [i \in DOMAIN var |-> mask1[i] /\ off_mask[i]]]

_updated_mask(o, var, mask) ==
    IF o.cls = "ThresholdPruner" THEN ThresholdPruner_updated_mask(o, var, mask)
    ELSE IF o.cls = "MeanStdPruner" THEN MeanStdPruner_updated_mask(o, var, mask)
    ELSE DynamicNetworkSurgeryPruner_updated_mask(o, var, mask)

\* BasePruner._update
BasePruner_update(S, id) ==
    LET o == S.ov[id]
        mask == _updated_mask(o, Eval(o.before, S.raw, S.store),
                              S.store[o.mask].value)
    IN  tf_assign(S, o.mask, mask.dtype, mask.value)

\* a policy with the two steps exchanged
_update_policy_swapped(o, tensor) ==
    LET p == o.init_point
        rate == _quantize(o.width_set, o.width, tensor, p, TRUE).rate
    IN  IF RGt(rate, o.overflow_rate) THEN p + 1
        ELSE IF RLe(RMul(RInt(2), rate), o.overflow_rate) THEN p - 1
        ELSE p

\* DynamicFixedPointQuantizer._update_policy
_update_policy(o, tensor) ==
    LET p == o.init_point
        rate == _quantize(o.width_set, o.width, tensor, p, TRUE).rate
    IN  IF RGt(rate, o.overflow_rate) THEN p - 1
        ELSE IF RLe(RMul(RInt(2), rate), o.overflow_rate) THEN p + 1
        ELSE p

\* an update whose policy steps from the point the variable holds
DynamicFixedPointQuantizer_update_from_current(S, id) ==
    LET o == S.ov[id]
        p == S.store[o.point_var].value[1]
        rate == _quantize(o.width_set, o.width,
                          Eval(o.before, S.raw, S.store), p, TRUE).rate
        q == IF RGt(rate, o.overflow_rate) THEN p - 1
             ELSE IF RLe(RMul(RInt(2), rate), o.overflow_rate) THEN p + 1
             ELSE p
    IN  tf_assign(S, o.point_var, "int32", <<q>>)

\* DynamicFixedPointQuantizer._update
DynamicFixedPointQuantizer_update(S, id) ==
    LET o == S.ov[id]
        p == _update_policy(o, Eval(o.before, S.raw, S.store))
    IN  tf_assign(S, o.point_var, "int32", <<p>>)

RECURSIVE update(_, _)
RECURSIVE ChainOverrider_update(_, _, _)

RECURSIVE ChainOverrider_update_reversed(_, _, _)
\* the children updated last to first
ChainOverrider_update_reversed(S, id, k) ==
    IF k > Len(S.ov[id].overriders) THEN S
    ELSE LET S1 == update(S, S.ov[id].overriders[
                                 Len(S.ov[id].overriders) + 1 - k])
         IN  IF Ok(S1) THEN ChainOverrider_update_reversed(S1, id, k + 1)
             ELSE S1

\* ChainOverrider._update, from child k on
ChainOverrider_update(S, id, k) ==
    IF k > Len(S.ov[id].overriders) THEN S
    ELSE LET S1 == update(S, S.ov[id].overriders[k])
         IN  IF Ok(S1) THEN ChainOverrider_update(S1, id, k + 1) ELSE S1

\* the _update of the overrider's class (BaseOverrider._update passes)
Dispatch_update(S, id) ==
    LET c == S.ov[id].cls
    IN  IF c = "ChainOverrider" THEN ChainOverrider_update(S, id, 1)
        ELSE IF c \in Pruners THEN BasePruner_update(S, id)
        ELSE IF c = "DynamicFixedPointQuantizer"
             THEN DynamicFixedPointQuantizer_update(S, id)
        ELSE S

\* update without the should_update test
update_ignoring_should_update(S, id) ==
    IF "_applied" \notin S.ov[id].attrs
    THEN Raise(S, "OverrideNotAppliedError")
    ELSE Dispatch_update(S, id)

\* BaseOverrider.update
update(S, id) ==
    IF ~S.ov[id].should_update THEN S
    ELSE IF "_applied" \notin S.ov[id].attrs
         THEN Raise(S, "OverrideNotAppliedError")
    ELSE Dispatch_update(S, id)

\* BaseOverrider.assign: reads the attributes _before and _after
assign(S, id) ==
    LET o == S.ov[id]
    IN  IF ~({"_before", "_after"} \subseteq o.attrs)
        THEN Raise(S, "AttributeError")
        ELSE [S EXCEPT !.raw[o._before.param] =
                           Eval(o._after, S.raw, S.store)]

\* BaseOverrider.reset
BaseOverrider_reset(S, id) ==
    [S EXCEPT !.store =
        [n \in VarNames |->
            IF n \in S.ov[id].internals
            THEN [S.store[n] EXCEPT !.value = S.store[n].initial_value]
            ELSE S.store[n]]]

RECURSIVE ChainOverrider_reset(_, _, _)
\* ChainOverrider.reset, from child k on (no child of a chain is a chain)
ChainOverrider_reset(S, id, k) ==
    IF k > Len(S.ov[id].overriders) THEN S
    ELSE ChainOverrider_reset(
             BaseOverrider_reset(S, S.ov[id].overriders[k]), id, k + 1)

reset(S, id) ==
    IF S.ov[id].cls = "ChainOverrider" THEN ChainOverrider_reset(S, id, 1)
    ELSE BaseOverrider_reset(S, id)

----------------------------------------------------------------------------
(* The configurations the host builds, and the raw values it trains *)

RawElems == {<<0, 1>>, <<-1, 2>>, <<13, 10>>}
ScenarioA == << <<1, 10>>, <<-6, 10>>, <<4, 10>>, <<9, 10>> >>
RawArrays == [1..ArrLen -> RawElems] \cup {[i \in 1..4 |-> Rat(ScenarioA[i][1], ScenarioA[i][2])]}

Thresholds == {<<1, 2>>}
Alphas == {<<0, 1>>, <<-2, 1>>}
Factors == {<< <<11, 10>>, <<9, 10>> >>, << <<11, 10>>, <<0, 1>> >>}
OverflowRates == {<<1, 2>>, <<1, 100>>}
Points == 0..MaxPoint
\* the points around the ones a quantizer is built with
PointsAround == (-1)..(MaxPoint + 1)
Widths == 1..MaxWidth
\* 2 ** point is an int32 power in the graph of the dynamic quantizer, whose
\* point goes down to width - 2: widths from 2 on keep the exponent >= 0
DynWidths == 2..MaxWidth

\* every class with every hyperparameter, updating
UpdatingLeaves ==
    {BaseOverrider(TRUE)}
    \cup {ThresholdPruner(t, TRUE) : t \in Thresholds}
    \cup {MeanStdPruner(a, TRUE) : a \in Alphas}
    \cup {DynamicNetworkSurgeryPruner(a, f[1], f[2], TRUE) :
             a \in Alphas, f \in Factors}
    \cup {FixedPointQuantizer(TRUE, p, TRUE, w, TRUE) :
             p \in Points, w \in Widths}
    \cup {FixedPointQuantizer(TRUE, p, FALSE, 0, TRUE) : p \in Points}
    \cup {DynamicFixedPointQuantizer(w, r, TRUE) :
             w \in DynWidths, r \in OverflowRates}

DNS == DynamicNetworkSurgeryPruner(<<0, 1>>, <<11, 10>>, <<9, 10>>, TRUE)
DFQ == DynamicFixedPointQuantizer(MaxWidth, <<1, 2>>, TRUE)
FPQ == FixedPointQuantizer(TRUE, MaxPoint, TRUE, MaxWidth, TRUE)

\* every class, non-updating
NonUpdatingLeaves ==
    {[l EXCEPT !.should_update = FALSE] :
        l \in {BaseOverrider(TRUE), ThresholdPruner(<<1, 2>>, TRUE),
               MeanStdPruner(<<0, 1>>, TRUE), DNS, DFQ, FPQ,
               FixedPointQuantizer(TRUE, 0, FALSE, 0, TRUE)}}

Leaves == UpdatingLeaves \cup NonUpdatingLeaves

\* the chains: [first child, second child, should_update of the chain]
Chains ==
    {<<DNS, DFQ, TRUE>>, <<DFQ, DNS, TRUE>>, <<DNS, DNS, TRUE>>,
     <<DNS, FPQ, TRUE>>, <<FPQ, DNS, TRUE>>, <<DFQ, DNS, FALSE>>,
     <<[DNS EXCEPT !.should_update = FALSE], DFQ, TRUE>>,
     <<ThresholdPruner(<<1, 2>>, TRUE), FPQ, TRUE>>}

Idle == BaseOverrider(TRUE)

Configs ==
    {[tops |-> {1},
      ov |-> (1 :> l) @@ (2 :> Idle) @@ (3 :> ChainOverrider(<<>>, TRUE))] :
        l \in Leaves}
    \cup {[tops |-> {3},
           ov |-> (1 :> c[1]) @@ (2 :> c[2])
                    @@ (3 :> ChainOverrider(<<1, 2>>, c[3]))] :
        c \in Chains}
    \cup {[tops |-> {3},
           ov |-> (1 :> Idle) @@ (2 :> Idle) @@ (3 :> ChainOverrider(<<>>, TRUE))]}

Init ==
    /\ \E c \in Configs : ov = c.ov /\ tops = c.tops
    /\ raw \in [Trained -> RawArrays]
    /\ store = [n \in VarNames |-> Absent]
    /\ call = [op |-> "init", id |-> 0, err |-> "ok", changed |-> FALSE]

\* the state a method starts from, and the state it leaves
Enter == [ov |-> ov, store |-> store, raw |-> raw, err |-> "ok", ret |-> Unbound]
Leave(S, op, id) ==
    /\ ov' = S.ov
    /\ store' = S.store
    /\ raw' = S.raw
    /\ call' = [op |-> op, id |-> id, err |-> S.err,
                changed |-> S.store # store]
    /\ UNCHANGED tops

\* the host binds an overrider to a parameter
Apply(id, p) == Leave(apply(Enter, id, {}, ParamTensor(p)), "apply", id)

\* the host updates, assigns, resets an overrider
Update(id) == Leave(update(Enter, id), "update", id)
Assign(id) == Leave(assign(Enter, id), "assign", id)
Reset(id) == Leave(reset(Enter, id), "reset", id)

\* a training step of the host writes a new raw value of the same shape
TrainFrom(p, arrays) ==
    /\ \E a \in arrays :
          /\ Len(a) = Len(raw[p])
          /\ a # raw[p]
          /\ raw' = [raw EXCEPT ![p] = a]
    /\ call' = [op |-> "train", id |-> 0, err |-> "ok", changed |-> FALSE]
    /\ UNCHANGED <<ov, store, tops>>

Train(p) == TrainFrom(p, RawArrays)

Next ==
    \/ \E id \in tops, p \in DOMAIN raw : Apply(id, p)
    \/ \E id \in tops : Update(id)
    \/ \E id \in tops : Assign(id)
    \/ \E id \in tops : Reset(id)
    \/ \E p \in DOMAIN raw : Train(p)

Spec == Init /\ [][Next]_vars

----------------------------------------------------------------------------
(* A host that builds its quantizer first *)

\* the widths a host may ask for: None (width_set FALSE) or an integer
WidthArgs == {[set |-> FALSE, v |-> 0]}
                 \cup {[set |-> TRUE, v |-> w] : w \in (-1)..MaxWidth}

InitConstruct ==
    /\ ov = (1 :> Idle) @@ (2 :> Idle) @@ (3 :> ChainOverrider(<<>>, TRUE))
    /\ tops = {}
    /\ raw \in [Trained -> RawArrays]
    /\ store = [n \in VarNames |-> Absent]
    /\ call = [op |-> "init", id |-> 0, err |-> "ok", changed |-> FALSE]

Constructed(r, width) ==
    /\ call' = [op |-> "construct", id |-> 1, err |-> r.err,
                changed |-> FALSE, width |-> width]
    /\ IF r.err = "ok"
       THEN ov' = [ov EXCEPT ![1] = r.obj] /\ tops' = {1}
       ELSE UNCHANGED <<ov, tops>>
    /\ UNCHANGED <<raw, store>>

\* FixedPointQuantizer(point, width)
ConstructFixed ==
    /\ tops = {}
    /\ \E p \in Points, w \in WidthArgs :
          Constructed(FixedPointQuantizer_init(TRUE, p, w.set, w.v, TRUE), w)

\* DynamicFixedPointQuantizer(width, overflow_rate); as in Init a width of 1
\* is left out (DynWidths)
ConstructDynamic ==
    /\ tops = {}
    /\ \E w \in WidthArgs, r \in OverflowRates :
          /\ w.set => w.v # 1
          /\ Constructed(DynamicFixedPointQuantizer_init(w.set, w.v, r, TRUE), w)

NextConstruct == ConstructFixed \/ ConstructDynamic \/ Next

SpecConstruct == InitConstruct /\ [][NextConstruct]_vars

----------------------------------------------------------------------------
(* A host with two parameters, each with an overrider of its own *)

\* the pairs of overriders, and the raw values of their parameters
Pairs == {<<DNS, DNS>>, <<DNS, DFQ>>, <<DFQ, DFQ>>}
PairArrays ==
    {[i \in 1..ArrLen |-> <<13, 10>>],
     [i \in 1..ArrLen |-> IF i = 1 THEN <<0, 1>> ELSE <<13, 10>>],
     [i \in 1..ArrLen |-> <<0, 1>>]}

\* the parameter the host binds each overrider to
ParamOf == (1 :> "w1") @@ (2 :> "w2")

InitPair ==
    /\ \E c \in Pairs :
          ov = (1 :> c[1]) @@ (2 :> c[2]) @@ (3 :> ChainOverrider(<<>>, TRUE))
    /\ tops = {1, 2}
    /\ raw \in [Params -> PairArrays]
    /\ store = [n \in VarNames |-> Absent]
    /\ call = [op |-> "init", id |-> 0, err |-> "ok", changed |-> FALSE]

NextPair ==
    \/ \E id \in tops : Apply(id, ParamOf[id])
    \/ \E id \in tops : Update(id)
    \/ \E id \in tops : Assign(id)
    \/ \E id \in tops : Reset(id)
    \/ \E p \in DOMAIN raw : TrainFrom(p, PairArrays)

SpecPair == InitPair /\ [][NextPair]_vars

----------------------------------------------------------------------------
(* A caller of the dispatcher's elementary operations *)

ConstantOperands ==
    {Operand("constant", "float", <<x>>) : x \in RawElems}
        \cup {Operand("constant", "int", <<RInt(n)>>) : n \in 0..1}
ArrayOperands == {Operand("numpy", "float", a) : a \in [1..ArrLen -> RawElems]}
TensorOperands == {Operand("tensor", "float", a) : a \in [1..ArrLen -> RawElems]}
\* tf.Variable operands (the mask and the point are such): symbolic, but no
\* instances of tf.Tensor
VariableOperands == {Operand("variable", "float", a) : a \in [1..ArrLen -> RawElems]}
Operands ==
    ConstantOperands \cup ArrayOperands \cup TensorOperands \cup VariableOperands

InitOps ==
    /\ ov = (1 :> Idle) @@ (2 :> Idle) @@ (3 :> ChainOverrider(<<>>, TRUE))
    /\ tops = {}
    /\ raw = [p \in Trained |-> <<>>]
    /\ store = [n \in VarNames |-> Absent]
    /\ call = [op |-> "init", id |-> 0, err |-> "ok", changed |-> FALSE]

\* one call of an operation, its arguments and what it returned
Called(op, args, res) ==
    /\ call.op = "init"
    /\ call' = [op |-> op, id |-> 0, err |-> res.err, changed |-> FALSE,
                args |-> args, res |-> res]
    /\ UNCHANGED <<ov, tops, raw, store>>

Cast == \E value \in Operands, dtype \in {"int", "float"} :
            Called("cast", <<value, dtype>>, _cast(value, dtype))
Sum == \E value \in Operands : Called("sum", <<value>>, _sum_op(value))
Count == \E value \in Operands : Called("count", <<value>>, _count_op(value))
Round == \E value \in Operands : Called("round", <<value>>, _round_op(value))
Abs == \E value \in Operands : Called("abs", <<value>>, _abs_op(value))
Min == \E a \in Operands, b \in Operands :
            (Len(a.v) = Len(b.v) \/ b.kind = "constant")
               /\ Called("min", <<a, b>>, _min(a, b))
Max == \E a \in Operands, b \in Operands :
            (Len(a.v) = Len(b.v) \/ b.kind = "constant")
               /\ Called("max", <<a, b>>, _max(a, b))
ClipByValue ==
    \E t \in ArrayOperands \cup TensorOperands, transparent_backprop \in BOOLEAN :
        LET lo == Operand("constant", "float", <<RInt(-1)>>)
            hi == Operand("constant", "float", <<RInt(0)>>)
        IN  Called("clip_by_value", <<t, lo, hi, transparent_backprop>>,
                   _clip_by_value_op(t, lo, hi, transparent_backprop))
Quantize ==
    \E value \in TensorOperands, point \in Points, width \in Widths :
        Called("quantize", <<value, point, width>>,
               _quantize_op(value, point, width))

\* _quantize(value, point, compute_overflow_rate=True) on an array, as
\* _update_policy calls it
OverflowRate ==
    \E value \in ArrayOperands, point \in PointsAround, width \in Widths :
        Called("overflow_rate", <<value, point, width>>,
               Returned("numpy", "float",
                        <<_quantize(TRUE, width, value.v, point, TRUE).rate>>,
                        <<>>))

NextOps ==
    \/ Cast \/ Sum \/ Count \/ Round \/ Abs \/ Min \/ Max
    \/ ClipByValue \/ Quantize \/ OverflowRate

SpecOps == InitOps /\ [][NextOps]_vars

----------------------------------------------------------------------------
(* Properties *)

Applied(o) == "_applied" \in o.attrs
AllKept(n) == [i \in 1..n |-> TRUE]

\* the overriders a call on id reaches: id itself and, for a chain, its children
Members(id) == {id} \cup {ov[id].overriders[k] : k \in DOMAIN ov[id].overriders}

\* C1: update on an overrider that was never applied raises
\* OverrideNotAppliedError, whatever its class and its should_update flag,
\* and changes nothing.
C1_UpdateBeforeApplyRaises ==
    [][(call'.op = "update" /\ ~Applied(ov[call'.id]))
           => /\ call'.err = "OverrideNotAppliedError"
              /\ ov' = ov /\ store' = store /\ raw' = raw]_vars

\* C2: an update call changes no internal variable of an applied overrider
\* constructed with should_update = False, and a call on such an overrider
\* returns without an error and without changing the session.
C2_NonUpdatingKeepsInternals ==
    [][call'.op = "update"
           => /\ \A o \in Ids :
                    (~ov[o].should_update /\ Applied(ov[o]))
                        => \A n \in ov[o].internals : store'[n] = store[n]
              /\ (~ov[call'.id].should_update /\ Applied(ov[call'.id]))
                    => call'.err = "ok" /\ store' = store /\ ov' = ov]_vars

\* C2 witness: update has returned on an applied non-updating surgery pruner
\* whose mask differs from the mask its policy computes from the raw value.
C2_Witness ==
    /\ call.op = "update" /\ call.err = "ok"
    /\ LET o == ov[call.id]
       IN  /\ o.cls = "DynamicNetworkSurgeryPruner"
           /\ ~o.should_update /\ Applied(o)
           /\ store[o.mask].exists
           /\ _updated_mask(o, Eval(o.before, raw, store),
                            store[o.mask].value).value # store[o.mask].value

\* C3: assign on an applied overrider completes and leaves the value of
\* `after` in the raw parameter.
C3_AssignCommitsAfter ==
    [][(call'.op = "assign" /\ "after" \in ov[call'.id].attrs)
           => /\ call'.err = "ok"
              /\ raw'[ov[call'.id].before.param] =
                     Eval(ov[call'.id].after, raw, store)]_vars

\* C4: reset returns every variable the reached overriders requested to its
\* initial value: a mask is all kept, a point is width - 1; the raw value is
\* left alone.
C4_ResetRestoresInternals ==
    [][call'.op = "reset"
           => /\ call'.err = "ok"
              /\ raw' = raw
              /\ \A m \in Members(call'.id) :
                    LET o == ov[m]
                    IN  /\ (o.cls \in Pruners /\ Applied(o))
                             => store'[o.mask].value =
                                    AllKept(Len(raw[o.before.param]))
                        /\ (o.cls = "DynamicFixedPointQuantizer" /\ Applied(o))
                             => store'[o.point_var].value = <<o.width - 1>>]_vars

\* C4 witness: a reset has changed a variable of an applied overrider.
C4_Witness ==
    /\ call.op = "reset" /\ call.changed
    /\ \E m \in Members(call.id) :
          Applied(ov[m]) /\ ov[m].internals # {}

\* the overflow rate of an array at a point: the fraction of the elements
\* whose rounded shifted value lies outside [-2^(w-1), 2^(w-1) - 1]
OverflowRateAt(a, p, w) ==
    Rat(Cardinality({i \in DOMAIN a :
            LET r == RoundHalfEven(RMul(a[i], TwoTo(p)))
            IN  r < -Pow2(w - 1) \/ r > Pow2(w - 1) - 1}), Len(a))

\* C5: an update of a dynamic quantizer moves the point one step from the
\* value it holds, by the overflow rate of the raw value at that value.
C5_StepFromCurrentPoint ==
    [][(/\ call'.op = "update" /\ call'.err = "ok"
        /\ ov[call'.id].cls = "DynamicFixedPointQuantizer"
        /\ ov[call'.id].should_update)
           => LET o == ov[call'.id]
                  p == store[o.point_var].value[1]
                  rate == OverflowRateAt(Eval(o.before, raw, store), p, o.width)
              IN  store'[o.point_var].value[1] =
                      IF RGt(rate, o.overflow_rate) THEN p - 1
                      ELSE IF RLe(RMul(RInt(2), rate), o.overflow_rate) THEN p + 1
                      ELSE p]_vars

\* x < factor * threshold, by the comparison of GtThreshold mirrored
LtThreshold(x, factor, alpha, tensor) ==
    GtThreshold(<<-x[1], x[2]>>, <<-factor[1], factor[2]>>, alpha, tensor)

\* the members of a call that an update call that returned has updated
UpdatedBy(id) ==
    {m \in Members(id) :
        ov[id].should_update /\ ov[m].should_update /\ Applied(ov[m])}

\* an update has set the mask of surgery pruner o so that every element
\* above on_factor * t is kept and every element below off_factor * t is pruned
SurgeryBands(o) ==
    LET var == Eval(o.before, raw', store')
        new == store'[o.mask].value
    IN  \A i \in DOMAIN var :
           /\ GtThreshold(_abs(var)[i], o.on_factor, o.alpha, var) => new[i]
           /\ LtThreshold(_abs(var)[i], o.off_factor, o.alpha, var) => ~new[i]

\* C6 as stated: one update of a surgery pruner with on_factor > off_factor
\* keeps every element above on_factor * t and prunes every element below
\* off_factor * t, whatever the old mask.
C6_SurgeryBandsAnyThreshold ==
    [][(call'.op = "update" /\ call'.err = "ok")
           => \A m \in UpdatedBy(call'.id) :
                 (/\ ov[m].cls = "DynamicNetworkSurgeryPruner"
                  /\ RLt(ov[m].off_factor, ov[m].on_factor))
                     => SurgeryBands(ov[m])]_vars

\* C6 amended: the same, for a threshold t >= 0.
C6_SurgeryBands ==
    [][(call'.op = "update" /\ call'.err = "ok")
           => \A m \in UpdatedBy(call'.id) :
                 (/\ ov[m].cls = "DynamicNetworkSurgeryPruner"
                  /\ RLt(ov[m].off_factor, ov[m].on_factor)
                  /\ ~ThresholdNegative(ov[m].alpha,
                                        Eval(ov[m].before, raw', store')))
                     => SurgeryBands(ov[m])]_vars

\* C6 witness: an update of a surgery pruner with t >= 0 has changed the mask,
\* with an element above on_factor * t and an element below off_factor * t.
C6_Witness ==
    /\ call.op = "update" /\ call.err = "ok" /\ call.changed
    /\ LET o == ov[call.id]
           var == Eval(o.before, raw, store)
       IN  /\ o.cls = "DynamicNetworkSurgeryPruner" /\ o.should_update
           /\ ~ThresholdNegative(o.alpha, var)
           /\ \E i \in DOMAIN var :
                 GtThreshold(_abs(var)[i], o.on_factor, o.alpha, var)
           /\ \E i \in DOMAIN var :
                 LtThreshold(_abs(var)[i], o.off_factor, o.alpha, var)

\* C7: an update of an applied threshold pruner completes and leaves the
\* boolean mask |raw| > threshold in the mask variable.
C7_ThresholdMaskPersisted ==
    [][(/\ call'.op = "update"
        /\ ov[call'.id].cls = "ThresholdPruner"
        /\ ov[call'.id].should_update /\ Applied(ov[call'.id]))
           => LET o == ov[call'.id]
                  var == Eval(o.before, raw, store)
              IN  /\ call'.err = "ok"
                  /\ store'[o.mask].dtype = "bool"
                  /\ store'[o.mask].value =
                         [i \in DOMAIN var |-> RGt(_abs(var)[i], o.threshold)]]_vars

\* the integers nearest to a rational, and the clip of an integer
NearestInts(x) ==
    {r \in (x[1] \div x[2])..((x[1] \div x[2]) + 1) :
        2 * IAbs(r * x[2] - x[1]) <= x[2]}
ClipTo(r, lo, hi) == IF r < lo THEN lo ELSE IF r > hi THEN hi ELSE r

\* C8: the value of a fixed quantizer with point p and width w is
\* clip(round(x * 2^p), -2^(w-1), 2^(w-1) - 1) / 2^p on every element, and
\* the overflow rate of an array is the fraction of its elements whose
\* rounded shifted value lies outside these bounds.
C8_FixedQuantizerValue ==
    /\ \A id \in Ids :
          (ov[id].cls = "FixedPointQuantizer" /\ "after" \in ov[id].attrs)
              => LET o == ov[id]
                     x == Eval(o.before, raw, store)
                     y == Eval(o.after, raw, store)
                 IN  /\ DOMAIN y = DOMAIN x
                     /\ \A i \in DOMAIN x :
                           \E r \in NearestInts(RMul(x[i], TwoTo(o.point))) :
                              y[i] = Rat(ClipTo(r, -Pow2(o.width - 1),
                                                Pow2(o.width - 1) - 1),
                                         Pow2(o.point))
    /\ \A q \in DOMAIN raw, p \in Points, w \in Widths :
          LET res == _quantize(TRUE, w, raw[q], p, TRUE)
          IN  res.err = "ok" /\ res.rate = OverflowRateAt(raw[q], p, w)

\* C8 witness: a quantizer with point 2 and width 4 is applied to an array
\* whose element 1.3 it turns into 1.25, and half of the array overflows at
\* some point and width.
C8_Witness ==
    /\ call.op = "apply" /\ call.err = "ok"
    /\ LET o == ov[call.id]
       IN  /\ o.cls = "FixedPointQuantizer" /\ o.point = 2 /\ o.width = 4
           /\ \E i \in DOMAIN raw[o.before.param] :
                 /\ raw[o.before.param][i] = <<13, 10>>
                 /\ Eval(o.after, raw, store)[i] = <<5, 4>>
           /\ \E p \in Points, w \in Widths :
                 _quantize(TRUE, w, raw[o.before.param], p, TRUE).rate = <<1, 2>>

\* C9: apply on a fixed quantizer constructed without a width completes and
\* returns round(x * 2^point) / 2^point, unclipped.
C9_NoWidthNoClipping ==
    [][(/\ call'.op = "apply"
        /\ ov[call'.id].cls = "FixedPointQuantizer"
        /\ ~ov[call'.id].width_set)
           => /\ call'.err = "ok"
              /\ "after" \in ov'[call'.id].attrs
              /\ LET o == ov'[call'.id]
                     x == Eval(o.before, raw', store')
                     y == Eval(o.after, raw', store')
                 IN  \A i \in DOMAIN x :
                        \E r \in NearestInts(RMul(x[i], TwoTo(o.point))) :
                           y[i] = Rat(r, Pow2(o.point))]_vars

\* C10: when apply(v) of a chain returns, the chain's before is v, the first
\* child's before is v, every further child's before is the after of the
\* child in front of it, each child has added its one operation, and the
\* chain's after is the last child's after.
C10_ChainApplyThreads ==
    (call.op = "apply" /\ call.err = "ok" /\ ov[call.id].cls = "ChainOverrider")
        => LET c == ov[call.id]
               n == Len(c.overriders)
               child(k) == ov[c.overriders[k]]
           IN  /\ c.before.ops = <<>> /\ c.before.param \in Params
               /\ c.after = (IF n = 0 THEN c.before ELSE child(n).after)
               /\ Len(c.after.ops) = n
               /\ \A k \in 1..n :
                     /\ {"_applied", "before", "after"} \subseteq child(k).attrs
                     /\ child(k).before =
                            (IF k = 1 THEN c.before ELSE child(k - 1).after)
                     /\ Len(child(k).after.ops) = k
                     /\ SubSeq(child(k).after.ops, 1, k - 1) = child(k).before.ops
                     /\ child(k).after.ops[k].kind =
                            (IF child(k).cls \in Pruners THEN "mul_mask"
                             ELSE "quantize")

\* C10 witness: a chain of a pruner and a quantizer has been applied.
C10_Witness ==
    /\ call.op = "apply" /\ call.err = "ok"
    /\ ov[call.id].cls = "ChainOverrider"
    /\ Len(ov[call.id].overriders) = 2
    /\ ov[ov[call.id].overriders[1]].cls \in Pruners
    /\ ov[ov[call.id].overriders[2]].cls \in Quantizers
    /\ ov[call.id].after.ops[2].kind = "quantize"

\* the variable a child of a chain recomputes in update, if it has one
ChildVar(o) ==
    IF o.cls \in Pruners THEN o.mask
    ELSE IF o.cls = "DynamicFixedPointQuantizer" THEN o.point_var
    ELSE NoVar

Recomputes(o) == o.should_update /\ Applied(o) /\ ChildVar(o) # NoVar

\* the value the overrider's policy gives its variable when its `before`
\* is evaluated against the storage st
PolicyValue(o, st) ==
    IF o.cls \in Pruners
    THEN _updated_mask(o, Eval(o.before, raw, st), st[o.mask].value).value
    ELSE <<_update_policy(o, Eval(o.before, raw, st))>>

ChainUpdateReturned ==
    /\ call'.op = "update" /\ call'.err = "ok"
    /\ ov[call'.id].cls = "ChainOverrider"
    /\ ov[call'.id].should_update /\ Applied(ov[call'.id])

\* the storage child k of the chain starts its update from: the variables of
\* the children before it already hold their new values
StoreAtChild(id, k) ==
    [n \in VarNames |->
        IF \E j \in 1..(k - 1) :
              LET c == ov[ov[id].overriders[j]]
              IN  Recomputes(c) /\ n = ChildVar(c)
        THEN store'[n] ELSE store[n]]

C12_QuantizeIdempotent ==
    /\ \A q \in DOMAIN raw, p \in PointsAround, w \in Widths :
          LET y == _quantize(TRUE, w, raw[q], p, FALSE).value
          IN  _quantize(TRUE, w, y, p, FALSE).value = y
    /\ \A id \in Ids :
          LET o == ov[id]
          IN  (o.cls = "FixedPointQuantizer" /\ "after" \in o.attrs)
                  => LET y == Eval(o.after, raw, store)
                     IN  _quantize(o.width_set, o.width, y, o.point, FALSE).value = y

\* C12 witness: a fixed quantizer has been applied to an array it changes,
\* one element of which it clips.
C12_Witness ==
    /\ call.op = "apply" /\ call.err = "ok"
    /\ LET o == ov[call.id]
       IN  /\ o.cls = "FixedPointQuantizer" /\ "after" \in o.attrs
           /\ Eval(o.after, raw, store) # Eval(o.before, raw, store)
           /\ _quantize(o.width_set, o.width, Eval(o.before, raw, store),
                        o.point, TRUE).rate # RZero

\* the overflow rate the quantizer computes for an array
overflow_rate(a, p, w) == _quantize(TRUE, w, a, p, TRUE).rate

\* C13: the overflow rate does not decrease when the point grows:
\* overflow_rate(p - 1) <= overflow_rate(p) <= overflow_rate(p + 1), for every
\* raw array, width >= 1 and point p.
C13_OverflowRateMonotone ==
    call.op = "overflow_rate"
        => LET a == call.args[1].v
               p == call.args[2]
               w == call.args[3]
           IN  /\ call.res.err = "ok"
               /\ RLe(overflow_rate(a, p - 1, w), call.res.v[1])
               /\ RLe(call.res.v[1], overflow_rate(a, p + 1, w))

\* C13 witness: the rate of an array has been computed at a point where it
\* is neither 0 nor 1, above the rate one point below and below the rate
\* two points above.
C13_Witness ==
    /\ call.op = "overflow_rate" /\ call.err = "ok"
    /\ LET a == call.args[1].v
           p == call.args[2]
           w == call.args[3]
       IN  /\ RLt(overflow_rate(a, p - 1, w), call.res.v[1])
           /\ RLt(call.res.v[1], overflow_rate(a, p + 2, w))

\* C14: a constructor call of a fixed or dynamic quantizer with a width
\* below 1 raises ValueError and makes no object, so no quantizer a method
\* can be called on has a width below 1.
C14_WidthBelowOneRaises ==
    [][/\ (call'.op = "construct" /\ call'.width.set /\ call'.width.v < 1)
            => call'.err = "ValueError" /\ tops' = tops /\ ov' = ov
       /\ \A id \in Ids :
             (ov'[id].cls \in Quantizers /\ ov'[id].width_set)
                 => ov'[id].width >= 1]_vars

\* C14 witness: a constructor called with width 0 has raised, and the host
\* holds no overrider.
C14_Witness ==
    /\ call.op = "construct" /\ call.err = "ValueError"
    /\ call.width.set /\ call.width.v = 0
    /\ tops = {}

\* what a session holds of an overrider: the values of its variables and of
\* its before and after
Observed(o, rw, st) ==
    [internals |-> [n \in o.internals |-> st[n]],
     before |-> Eval(o.before, rw, st),
     after |-> IF "after" \in o.attrs THEN Eval(o.after, rw, st) ELSE <<>>]

\* C15: with two applied overriders on two distinct parameters, an update of
\* one leaves the other's variables, before and after as they were, and the
\* two updates give the same final state in either order: updating the
\* other next ends where updating the other first would have.
C15_DistinctParametersIndependent ==
    [][call'.op = "update"
           => \A b \in tops \ {call'.id} :
                 (Applied(ov[call'.id]) /\ Applied(ov[b]))
                     => /\ call'.err = "ok"
                        /\ ov'[b] = ov[b]
                        /\ Observed(ov[b], raw', store')
                               = Observed(ov[b], raw, store)
                        /\ update([Enter EXCEPT !.ov = ov', !.store = store',
                                                !.raw = raw'], b).store
                               = update(update(Enter, b), call'.id).store]_vars

\* C15 witness: both overriders are applied, the last call was an update of
\* one that changed its variable, and an update of the other would change
\* the other's variable.
C15_Witness ==
    /\ call.op = "update" /\ call.err = "ok" /\ call.changed
    /\ \A a \in tops : Applied(ov[a])
    /\ \E b \in tops \ {call.id} : update(Enter, b).store # store

\* the constant holding element i of an operand
ConstantAt(x, i) ==
    Operand("constant", x.dtype, <<IF Len(x.v) = 1 THEN x.v[1] ELSE x.v[i]>>)

\* the operation of a call on constants
OnConstants(op, a, b) ==
    IF op = "cast" THEN _cast(a, b)
    ELSE IF op = "round" THEN _round_op(a)
    ELSE IF op = "abs" THEN _abs_op(a)
    ELSE IF op = "min" THEN _min(a, b)
    ELSE _max(a, b)

\* C16: cast, round, abs, min and max give, on a dense array, the numbers
\* they give on the constants the array holds, element by element.
C16_ArrayAgreesWithConstants ==
    (/\ call.op \in {"cast", "round", "abs", "min", "max"}
     /\ call.args[1].kind = "numpy"
     /\ call.op \in {"min", "max"} => call.args[2].kind \in {"constant", "numpy"})
        => /\ call.res.err = "ok"
           /\ Len(call.res.v) = Len(call.args[1].v)
           /\ \A i \in DOMAIN call.args[1].v :
                 LET a == ConstantAt(call.args[1], i)
                     b == IF call.op \in {"min", "max"}
                          THEN ConstantAt(call.args[2], i) ELSE call.args[2]
                 IN  call.res.v[i] = OnConstants(call.op, a, b).v[1]

\* C17: sum and count of a lone constant raise TypeError and return no
\* value; of a dense array they return the sum of the elements and the
\* number of elements.
C17_SumCountOfConstantRaise ==
    call.op \in {"sum", "count"}
        => LET value == call.args[1]
           IN  /\ value.kind = "constant"
                     => call.res.err = "TypeError" /\ call.res.v = <<>>
               /\ value.kind = "numpy"
                     => /\ call.res.err = "ok"
                        /\ call.op = "sum" => call.res.v = <<RSum(value.v)>>
                        /\ call.op = "count"
                              => call.res.v = <<RInt(Cardinality(DOMAIN value.v))>>

\* C17 witness: sum has been called on the constant 1.3 and raised.
C17_Witness ==
    /\ call.op = "sum" /\ call.err = "TypeError"
    /\ call.args[1] = Operand("constant", "float", << <<13, 10>> >>)

\* C18: on a tensor, round, clip and the quantizer's clip compute the exact
\* forward value and every Round, Minimum and Maximum node they build has
\* the identity for its backward rule.
C18_RoundAndClipStraightThrough ==
    (call.op \in {"round", "clip_by_value", "quantize"}
        /\ call.args[1].kind = "tensor")
        => /\ call.res.err = "ok"
           /\ \A k \in DOMAIN call.res.nodes :
                 call.res.nodes[k].op \in {"Round", "Minimum", "Maximum"}
                     => call.res.nodes[k].backward = "Identity"
           /\ call.op = "round"
                 => call.res.v = [i \in DOMAIN call.args[1].v |->
                                     RInt(RoundHalfEven(call.args[1].v[i]))]
           /\ call.op = "clip_by_value"
                 => call.res.v = [i \in DOMAIN call.args[1].v |->
                                     RMax(call.args[2].v[1],
                                          RMin(call.args[3].v[1],
                                               call.args[1].v[i]))]

\* the applied dynamic quantizers an update call reaches
DynamicUpdated(id) ==
    {m \in Members(id) :
        /\ ov[m].cls = "DynamicFixedPointQuantizer"
        /\ Applied(ov[m]) /\ store[ov[m].point_var].exists}

\* C19: an update call moves the point of a dynamic quantizer by at most 1:
\* to p - 1, p or p + 1 from the point p it had before the call.
C19_PointMovesByAtMostOne ==
    [][call'.op = "update"
           => \A m \in DynamicUpdated(call'.id) :
                 LET old == store[ov[m].point_var].value[1]
                     new == store'[ov[m].point_var].value[1]
                 IN  new \in {old - 1, old, old + 1}]_vars

\* the points searched for the band: below the first, nothing overflows;
\* above the last, every non-zero element does
BandPoints == (-2)..(MaxWidth + 4)

\* the points whose overflow rate lies within [target / 2, target]
InBand(a, w, target) ==
    {p \in BandPoints :
        /\ RLe(target, RMul(RInt(2), overflow_rate(a, p, w)))
        /\ RLe(overflow_rate(a, p, w), target)}

\* there is a largest such point: the band is not empty and ends
HasLargestInBand(a, w, target) ==
    InBand(a, w, target) # {} /\ (MaxWidth + 4) \notin InBand(a, w, target)

LargestInBand(a, w, target) ==
    CHOOSE p \in InBand(a, w, target) :
        \A q \in InBand(a, w, target) : q <= p

StepFromInitPoint(a, w, target) ==
    LET r == OverflowRateAt(a, w - 1, w)
    IN  IF RGt(r, target) THEN w - 2
        ELSE IF RLe(RMul(RInt(2), r), target) THEN w
        ELSE w - 1

InSurgeryBand(o, var, i) ==
    /\ GtThreshold(_abs(var)[i], o.off_factor, o.alpha, var)
    /\ ~GtThreshold(_abs(var)[i], o.on_factor, o.alpha, var)

\* C21: in one update of a surgery pruner with a threshold t >= 0 and
\* on_factor > off_factor, every element with
\* off_factor * t < |raw| <= on_factor * t keeps the mask bit it had.
C21_BandKeepsOldBit ==
    [][(call'.op = "update" /\ call'.err = "ok")
           => \A m \in UpdatedBy(call'.id) :
                 (/\ ov[m].cls = "DynamicNetworkSurgeryPruner"
                  /\ RLt(ov[m].off_factor, ov[m].on_factor)
                  /\ ~ThresholdNegative(ov[m].alpha,
                                        Eval(ov[m].before, raw', store')))
                     => LET var == Eval(ov[m].before, raw', store')
                        IN  \A i \in DOMAIN var :
                               InSurgeryBand(ov[m], var, i)
                                   => store'[ov[m].mask].value[i] =
                                          store[ov[m].mask].value[i]]_vars

\* C21 witness: an update of a surgery pruner with t >= 0 has returned with
\* an element in the band that stays pruned and an element that is kept.
C21_Witness ==
    /\ call.op = "update" /\ call.err = "ok"
    /\ LET o == ov[call.id]
           var == Eval(o.before, raw, store)
       IN  /\ o.cls = "DynamicNetworkSurgeryPruner" /\ o.should_update
           /\ RLt(o.off_factor, o.on_factor)
           /\ ~ThresholdNegative(o.alpha, var)
           /\ \E i \in DOMAIN var :
                 InSurgeryBand(o, var, i) /\ ~store[o.mask].value[i]
           /\ \E i \in DOMAIN var : store[o.mask].value[i]

\* the state an update call has left, as the state the next call enters
Post == [Enter EXCEPT !.ov = ov', !.store = store', !.raw = raw']

\* C22: a surgery pruner with on_factor > off_factor does not oscillate: an
\* update that follows an update on an unchanged raw value leaves the mask
\* the first update has set, whatever the mask was before the first.
C22_SecondUpdateKeepsMask ==
    [][(call'.op = "update" /\ call'.err = "ok")
           => \A m \in UpdatedBy(call'.id) :
                 (/\ ov[m].cls = "DynamicNetworkSurgeryPruner"
                  /\ RLt(ov[m].off_factor, ov[m].on_factor))
                     => LET second == update(Post, call'.id)
                        IN  /\ second.err = "ok"
                            /\ second.store[ov[m].mask] = store'[ov[m].mask]]_vars

\* C22 witness: an update of a surgery pruner has changed its mask, which
\* now prunes an element and keeps another.
C22_Witness ==
    /\ call.op = "update" /\ call.err = "ok" /\ call.changed
    /\ \E m \in Members(call.id) :
          /\ ov[m].cls = "DynamicNetworkSurgeryPruner"
          /\ ov[m].should_update /\ ov[call.id].should_update
          /\ RLt(ov[m].off_factor, ov[m].on_factor)
          /\ \E i, j \in DOMAIN store[ov[m].mask].value :
                store[ov[m].mask].value[i] /\ ~store[ov[m].mask].value[j]

\* the mask variable of pruner o in store st is a boolean array of the shape
\* of the parameter o is applied to
MaskOfParameterShape(o, rw, st) ==
    /\ st[o.mask].exists
    /\ st[o.mask].dtype = "bool"
    /\ DOMAIN st[o.mask].value = DOMAIN rw[o.before.param]
    /\ \A i \in DOMAIN st[o.mask].value : st[o.mask].value[i] \in BOOLEAN

\* C23: after every call, the mask of every applied pruner (threshold,
\* mean+sigma, surgery; standalone or in a chain) is a boolean array of
\* exactly the parameter's shape, and update and reset leave the dtype and
\* the shape of every variable as they were.
C23_MaskBooleanOfParameterShape ==
    [][/\ \A id \in DOMAIN ov' :
             "_mask" \in ov'[id].attrs
                 => MaskOfParameterShape(ov'[id], raw', store')
       /\ call'.op \in {"update", "reset"}
             => \A n \in VarNames :
                   /\ store'[n].exists = store[n].exists
                   /\ store'[n].dtype = store[n].dtype
                   /\ DOMAIN store'[n].value = DOMAIN store[n].value]_vars

\* C23 witness: a reset has put back the all-kept mask of an applied pruner
\* whose update had pruned an element.
C23_Witness ==
    /\ call.op = "reset" /\ call.err = "ok" /\ call.changed
    /\ \E m \in Members(call.id) :
          /\ "_mask" \in ov[m].attrs
          /\ store[ov[m].mask].value = AllKept(Len(raw[ov[m].before.param]))

\* the overridden value of pruner o is its raw value where the mask keeps the
\* element and 0 where the mask prunes it
MaskedValue(o, rw, st) ==
    LET before == Eval(o.before, rw, st)
        after == Eval(o.after, rw, st)
    IN  /\ DOMAIN after = DOMAIN before
        /\ \A i \in DOMAIN before :
              after[i] = IF st[o.mask].value[i] THEN before[i] ELSE RZero

\* C24: after every call, the overridden value of every applied pruner is the
\* raw value where the mask keeps and 0 where it prunes; and the apply that
\* creates the mask leaves an overridden value equal to the raw value.
C24_AfterIsMaskedRaw ==
    [][/\ \A id \in DOMAIN ov' :
             {"_mask", "after"} \subseteq ov'[id].attrs
                 => MaskedValue(ov'[id], raw', store')
       /\ (call'.op = "apply" /\ call'.err = "ok")
             => \A id \in DOMAIN ov' :
                   (/\ id \in Members(call'.id)
                    /\ "_mask" \in ov'[id].attrs
                    /\ ~store[ov'[id].mask].exists)
                       => /\ store'[ov'[id].mask].value
                                = AllKept(Len(raw'[ov'[id].before.param]))
                          /\ Eval(ov'[id].after, raw', store')
                                = Eval(ov'[id].before, raw', store')]_vars

\* C24 witness: an update has pruned an element that is not 0 in the raw
\* value of the pruner and kept another: the overridden value differs from
\* the raw value there.
C24_Witness ==
    /\ call.op = "update" /\ call.err = "ok" /\ call.changed
    /\ \E m \in Members(call.id) :
          /\ {"_mask", "after"} \subseteq ov[m].attrs
          /\ \E i, j \in DOMAIN store[ov[m].mask].value :
                /\ ~store[ov[m].mask].value[i]
                /\ Eval(ov[m].before, raw, store)[i] # RZero
                /\ Eval(ov[m].after, raw, store)[i] = RZero
                /\ store[ov[m].mask].value[j]
                /\ Eval(ov[m].after, raw, store)[j] # RZero

\* the operands among the arguments of a call of the dispatcher
OperandArgs(c) == IF c.op = "cast" THEN <<c.args[1]>> ELSE c.args
KindsOf(args) == {args[i].kind : i \in DOMAIN args}

\* C25: the classification of the operands of an operation is total and
\* exclusive and goes in order: constant iff all operands are constants;
\* else array iff all are constants or arrays; else symbolic, which is
\* exactly when an operand is symbolic.  The value an operation returns is of
\* the kind of that backend.
C25_ClassificationInOrder ==
    call.op \in {"cast", "round", "abs", "min", "max"}
        => LET args == OperandArgs(call)
               kinds == KindsOf(args)
           IN  /\ ~(_is_constant(args) /\ _is_numpy(args))
               /\ Backend(args) = "constant" <=> kinds \subseteq {"constant"}
               /\ Backend(args) = "numpy"
                     <=> (kinds \subseteq {"constant", "numpy"} /\ "numpy" \in kinds)
               /\ Backend(args) = "tensor"
                     <=> kinds \cap {"tensor", "variable"} # {}
               /\ _is_tensor(args) => Backend(args) = "tensor"
               /\ call.res.err = "ok" => call.res.kind = Backend(args)

\* C25 witness: min has been called on an array and a tensor and has taken
\* the symbolic backend.
C25_Witness ==
    /\ call.op = "min" /\ call.err = "ok"
    /\ call.args[1].kind = "numpy" /\ call.args[2].kind = "tensor"
    /\ call.res.kind = "tensor"

\* C26: min and max of two dense arrays of one shape, or of an array and a
\* constant, return the array of the smaller, of the larger, of the two
\* elements at each index; of two constants, the smaller, the larger scalar.
C26_MinMaxElementwise ==
    (/\ call.op \in {"min", "max"}
     /\ \/ KindsOf(call.args) = {"constant"}
        \/ /\ call.args[1].kind = "numpy"
           /\ call.args[2].kind \in {"constant", "numpy"})
        => /\ call.res.err = "ok"
           /\ call.res.kind = call.args[1].kind
           /\ call.res.v = [i \in DOMAIN call.args[1].v |->
                   LET x == call.args[1].v[i]
                       y == IF call.args[2].kind = "constant"
                            THEN call.args[2].v[1] ELSE call.args[2].v[i]
                   IN  IF (call.op = "min") = RLe(x, y) THEN x ELSE y]

\* the variables of the store that are points
PointNames == {n \in VarNames : n[2] = "point"}

\* C27: the first apply of a dynamic quantizer creates its point variable
\* with the value width - 1; a later apply of the same quantizer creates no
\* variable, leaves the value of every point as it was, and changes nothing
\* of the quantizer but the bindings of name, before and after.
C27_PointCreatedOnce ==
    [][(call'.op = "apply" /\ call'.err = "ok")
           => \A m \in Members(call'.id) :
                 ov[m].cls = "DynamicFixedPointQuantizer"
                     => IF ~ov[m].point_set
                        THEN /\ ov'[m].point_set
                             /\ ov'[m].point_var = <<OpName(ov'[m].before), "point">>
                             /\ ~store[ov'[m].point_var].exists
                             /\ store'[ov'[m].point_var] =
                                    [exists |-> TRUE, dtype |-> "int32",
                                     value |-> <<ov[m].width - 1>>,
                                     initial_value |-> <<ov[m].width - 1>>]
                        ELSE /\ \A n \in PointNames : store'[n] = store[n]
                             /\ [ov'[m] EXCEPT !.name = ov[m].name,
                                               !.before = ov[m].before,
                                               !.after = ov[m].after,
                                               !.attrs = ov[m].attrs] = ov[m]
                             /\ {"before", "after"} \subseteq ov'[m].attrs]_vars

\* C27 witness: a dynamic quantizer whose update had moved the point off
\* width - 1 has been applied again, and the point is where the update put it.
C27_Witness ==
    /\ call.op = "apply" /\ call.err = "ok"
    /\ \E m \in Members(call.id) :
          /\ ov[m].cls = "DynamicFixedPointQuantizer" /\ ov[m].point_set
          /\ store[ov[m].point_var].value[1] # ov[m].width - 1
          /\ Cardinality({n \in PointNames : store[n].exists}) = 1

\* the points a dynamic quantizer of width w holds
PointsOf(w) == {w - 2, w - 1, w}

\* C28: after every call, the point of every applied dynamic quantizer of
\* width w is w - 2, w - 1 or w; and the point an update leaves does not
\* depend on the point the variable held: from each of the three points the
\* same update on the same raw value leaves the same point.
C28_PointWithinOneOfInit ==
    [][/\ \A id \in DOMAIN ov' :
             (ov'[id].cls = "DynamicFixedPointQuantizer" /\ ov'[id].point_set)
                 => store'[ov'[id].point_var].value[1] \in PointsOf(ov'[id].width)
       /\ (call'.op = "update" /\ call'.err = "ok")
             => \A m \in DynamicUpdated(call'.id) :
                   (ov[m].should_update /\ ov[call'.id].should_update)
                       => \A q \in PointsOf(ov[m].width) :
                             update([Enter EXCEPT
                                        !.store[ov[m].point_var].value = <<q>>],
                                    call'.id).store[ov[m].point_var]
                                 = store'[ov[m].point_var]]_vars

\* C28 witness: an update has moved the point of a dynamic quantizer to
\* width - 2, and the quantized value differs from the raw value.
C28_Witness ==
    /\ call.op = "update" /\ call.err = "ok" /\ call.changed
    /\ \E m \in DynamicUpdated(call.id) :
          /\ ov[m].should_update /\ ov[call.id].should_update
          /\ store[ov[m].point_var].value[1] = ov[m].width - 2
          /\ Eval(ov[m].before, raw, store) # Eval(ov[m].after, raw, store)

\* C29: an overrider is marked applied only when apply has completed: every
\* overrider marked applied has before and after bound, an apply whose
\* transform fails leaves the overrider not applied, and an update of an
\* overrider whose apply has failed raises OverrideNotAppliedError.
C29_AppliedOnlyWhenApplyCompleted ==
    [][/\ \A id \in DOMAIN ov' :
             Applied(ov'[id]) => {"before", "after"} \subseteq ov'[id].attrs
       /\ (call'.op = "apply" /\ call'.err # "ok") => ~Applied(ov'[call'.id])
       /\ (/\ call'.op = "update" /\ ov[call'.id].should_update
           /\ "after" \notin ov[call'.id].attrs)
             => call'.err = "OverrideNotAppliedError"]_vars

====
